---- MODULE Spec2Model ----
(***************************************************************************)
(* Morse: two chat prototypes.                                             *)
(*                                                                         *)
(*  - the mocked messaging interface: MessagingInterface (message store,   *)
(*    selected contact) with its MessageInput composer, whose submit       *)
(*    delivers through a 300 ms setTimeout;                                *)
(*  - the socket page (frontend/page.tsx): a draft, a flat transcript and  *)
(*    a socket.io connection.                                              *)
(*                                                                         *)
(* Strings are sequences of one-character strings, so trim() and string    *)
(* concatenation are computed, not assumed.  React state is the value seen *)
(* by the handlers of the latest render; a timer callback keeps the values *)
(* of the render that created it (its closure).                            *)
(***************************************************************************)
EXTENDS Integers, Sequences, FiniteSets, TLC

\* ------------------------------------------------------------------ bounds
MaxSubmits == 2
MaxEvents == 3

\* ------------------------------------------------------- program constants
\* setTimeout(..., 300) in handleSend
SendDelay == 300

MaxClock == MaxSubmits * SendDelay

\* --------------------------------------------------------------- strings
Whitespace == {" ", "\n", "\t", "\r"}

\* the values typed into the draft / received as payload text
Texts == {<<>>, <<"\n">>, <<"a">>, <<"\n", "a", " ">>}

\* String.prototype.trim: strip leading and trailing whitespace
RECURSIVE trimStart(_)
trimStart(s) ==
    IF s # <<>> /\ Head(s) \in Whitespace THEN trimStart(Tail(s)) ELSE s

RECURSIVE trimEnd(_)
trimEnd(s) ==
    IF s # <<>> /\ s[Len(s)] \in Whitespace
    THEN trimEnd(SubSeq(s, 1, Len(s) - 1))
    ELSE s

trim(s) == trimEnd(trimStart(s))

\* ------------------------------------------------------------ seed data
Null == "null"

initialContacts == <<"c1", "c2">>

Contacts == {initialContacts[i] : i \in 1..Len(initialContacts)}

initialMessages ==
    [c \in {"c1"} |->
        << [id |-> <<"seed", 1>>, content |-> <<"a">>, senderId |-> c,
            timestamp |-> 0, status |-> "read"] >>]

VARIABLES
    \* MessagingInterface
    messages, selectedContact,
    \* MessageInput
    message, isSending,
    \* the event loop: pending setTimeout callbacks (with their closures), clock
    timers, now,
    \* history: accepted submits so far, and what the latest handler did
    nSubmits, last,
    \* socket page (Home)
    mounted, msg, transcript,
    \* the socket: what was emitted; history: the events handled since mount
    emitted, events

guiVars == <<messages, selectedContact, message, isSending, timers, now,
             nSubmits, last>>
echoVars == <<mounted, msg, transcript, emitted, events>>
vars == <<guiVars, echoVars>>

\* prev[id] || []
Conv(store, c) == IF c \in DOMAIN store THEN store[c] ELSE <<>>

\* ---------------------------------------------------- MessagingInterface
newMessage(content, idClock, tsClock) ==
    [id |-> <<"msg", idClock>>, content |-> content, senderId |-> "me",
     timestamp |-> tsClock, status |-> "sent"]

\* mutant: the spread of prev is forgotten, ({[id]: [...(prev[id] || []), m]})
appendMessage_replacesStore(prev, c, m) ==
    [k \in {c} |-> Append(Conv(prev, c), m)]

\* setMessages((prev) => ({...prev, [id]: [...(prev[id] || []), m]}))
appendMessage(prev, c, m) ==
    [k \in DOMAIN prev \cup {c} |->
        IF k = c THEN Append(Conv(prev, c), m) ELSE prev[k]]

\* mutant: a conversation with no sequence yet is not initialised
handleSendMessage_existingOnly(prev, contact, content, idClock, tsClock) ==
    IF contact = Null \/ trim(content) = <<>> \/ contact \notin DOMAIN prev
    THEN prev
    ELSE appendMessage(prev, contact, newMessage(content, idClock, tsClock))

\* handleSendMessage as closed over `contact` (the selectedContact of the
\* render that created it); the result is the next message store
handleSendMessage(prev, contact, content, idClock, tsClock) ==
    IF contact = Null \/ trim(content) = <<>>
    THEN prev
    ELSE appendMessage(prev, contact, newMessage(content, idClock, tsClock))

\* ------------------------------------------------------------ MessageInput
Idle == [op |-> "other", key |-> "", shift |-> FALSE, other |-> FALSE,
         accepted |-> FALSE, prevented |-> FALSE, target |-> Null,
         at |-> 0, edited |-> FALSE]

\* mutant: if (message)
handleSendAccepts_untrimmed(draft) == draft # <<>>

\* if (message.trim())
handleSendAccepts(draft) == trim(draft) # <<>>

\* mutant: the closure keeps message.trim()
sendTimer_trimmed(draft, contact, clock) ==
    [content |-> trim(draft), contact |-> contact, at |-> clock]

\* the closure handed to setTimeout
sendTimer(draft, contact, clock) ==
    [content |-> draft, contact |-> contact, at |-> clock]

\* handleSend of the current render
handleSend ==
    IF handleSendAccepts(message)
    THEN /\ isSending' = TRUE
         /\ timers' = Append(timers, sendTimer(message, selectedContact, now))
         /\ nSubmits' = nSubmits + 1
    ELSE UNCHANGED <<isSending, timers, nSubmits>>

\* disabled={!message.trim() || isSending}
sendDisabled == trim(message) = <<>> \/ isSending

\* mutant: if (e.key === "Enter")
keySubmits_ignoresShift(e) == e.key = "Enter"

\* if (e.key === "Enter" && !e.shiftKey)
keySubmits(e) == e.key = "Enter" /\ ~e.shiftKey

\* Enter under every combination of modifiers, and an ordinary key
KeyEvents ==
    [key : {"Enter"}, shiftKey : BOOLEAN, ctrlKey : BOOLEAN, altKey : BOOLEAN,
     metaKey : BOOLEAN]
    \cup {[key |-> "a", shiftKey |-> FALSE, ctrlKey |-> FALSE,
           altKey |-> FALSE, metaKey |-> FALSE]}

otherModifier(e) == e.ctrlKey \/ e.altKey \/ e.metaKey

\* onChange={(e) => setMessage(e.target.value)}
onChange(v) ==
    /\ v # message
    /\ message' = v
    /\ last' = Idle
    /\ UNCHANGED <<messages, selectedContact, isSending, timers, now, nSubmits>>

\* onKeyDown={handleKeyDown}; `prevented` records e.preventDefault(), without
\* which the textarea goes on to insert the key (a newline for Enter) and
\* reports the new value through onChange
KeyDown(e) ==
    /\ keySubmits(e) /\ handleSendAccepts(message) => nSubmits < MaxSubmits
    /\ IF keySubmits(e)
       THEN handleSend
       ELSE UNCHANGED <<isSending, timers, nSubmits>>
    /\ last' = [Idle EXCEPT !.op = "key", !.key = e.key, !.shift = e.shiftKey,
                            !.other = otherModifier(e),
                            !.prevented = keySubmits(e),
                            !.accepted = Len(timers') > Len(timers)]
    /\ UNCHANGED <<messages, selectedContact, message, now>>

\* onClick={handleSend} on the Send button
ClickSend ==
    /\ ~sendDisabled
    /\ nSubmits < MaxSubmits
    /\ handleSend
    /\ last' = [Idle EXCEPT !.op = "click",
                            !.accepted = Len(timers') > Len(timers)]
    /\ UNCHANGED <<messages, selectedContact, message, now>>

\* onSelectContact={setSelectedContact}
SelectContact(c) ==
    /\ selectedContact' = c
    /\ last' = Idle
    /\ UNCHANGED <<messages, message, isSending, timers, now, nSubmits>>

\* mutant: the callback reaches the handleSendMessage of the latest render,
\* so the message goes to the contact selected when the timer fires
Deliver_currentSelection(t, clock) ==
    /\ messages' = handleSendMessage(messages, selectedContact, t.content,
                                     clock, clock)
    /\ message' = <<>>
    /\ isSending' = FALSE

\* mutant: the Message is built when the submit is accepted and carries
\* that clock reading as its timestamp
Deliver_submitTime(t, clock) ==
    /\ messages' = handleSendMessage(messages, t.contact, t.content,
                                     clock, t.at)
    /\ message' = <<>>
    /\ isSending' = FALSE

\* the setTimeout callback: onSendMessage(message); setMessage("");
\* setIsSending(false).  handleSendMessage reads the clock for the id
\* (Date.now()) and for the timestamp (new Date()).
Deliver(t, clock) ==
    /\ messages' = handleSendMessage(messages, t.contact, t.content,
                                     clock, clock)
    /\ message' = <<>>
    /\ isSending' = FALSE

\* the event loop runs the oldest timer once its delay has elapsed
TimerFires ==
    /\ timers # <<>>
    /\ now >= Head(timers).at + SendDelay
    /\ Deliver(Head(timers), now)
    /\ timers' = Tail(timers)
    /\ last' = [Idle EXCEPT !.op = "deliver", !.target = Head(timers).contact,
                            !.at = Head(timers).at,
                            !.edited = message # Head(timers).content]
    /\ UNCHANGED <<selectedContact, now, nSubmits>>

\* the clock, observed every SendDelay milliseconds
Elapse ==
    /\ now + SendDelay <= MaxClock
    /\ now' = now + SendDelay
    /\ last' = Idle
    /\ UNCHANGED <<messages, selectedContact, message, isSending, timers,
                   nSubmits>>

\* -------------------------------------------------------------- socket page
YouPrefix == <<"Y", "o", "u", ":", " ">>
FriendPrefix == <<"F", "r", "i", "e", "n", "d", ":", " ">>

\* mutant: if (msg === "") return
sendReturnsEarly_emptyOnly(draft) == draft = <<>>

\* if (msg.trim() === "") return
sendReturnsEarly(draft) == trim(draft) = <<>>

\* setMessages((prev) => [...prev, "You: " + msg])
youLine(prev, text) == Append(prev, YouPrefix \o text)

\* setMessages((prev) => [...prev, "Friend: " + data.text])
friendLine(prev, text) == Append(prev, FriendPrefix \o text)

\* onClick={send}
send ==
    /\ mounted
    /\ Len(events) < MaxEvents
    /\ IF sendReturnsEarly(msg)
       THEN UNCHANGED <<msg, transcript, emitted>>
       ELSE /\ emitted' = Append(emitted, msg)
            /\ transcript' = youLine(transcript, msg)
            /\ msg' = <<>>
    /\ events' = Append(events, [kind |-> "send", text |-> msg])
    /\ UNCHANGED mounted

\* socket.on("receive", (data) => ...), registered while mounted
receive(data) ==
    /\ mounted
    /\ Len(events) < MaxEvents
    /\ transcript' = friendLine(transcript, data.text)
    /\ events' = Append(events, [kind |-> "receive", text |-> data.text])
    /\ UNCHANGED <<mounted, msg, emitted>>

\* onChange={(e) => setMsg(e.target.value)}
setMsg(v) ==
    /\ mounted
    /\ v # msg
    /\ msg' = v
    /\ UNCHANGED <<mounted, transcript, emitted, events>>

\* the effect's cleanup: socket.off("receive"); the component state is dropped
unmount ==
    /\ mounted
    /\ mounted' = FALSE
    /\ msg' = <<>>
    /\ transcript' = <<>>
    /\ emitted' = <<>>
    /\ events' = <<>>

\* useState("") / useState([]) and the effect's socket.on("receive", ...)
mount ==
    /\ ~mounted
    /\ mounted' = TRUE
    /\ UNCHANGED <<msg, transcript, emitted, events>>

\* ------------------------------------------------------------- specification
Init ==
    /\ messages = initialMessages
    /\ selectedContact = initialContacts[1]
    /\ message = <<>>
    /\ isSending = FALSE
    /\ timers = <<>>
    /\ now = 0
    /\ nSubmits = 0
    /\ last = Idle
    /\ mounted = TRUE
    /\ msg = <<>>
    /\ transcript = <<>>
    /\ emitted = <<>>
    /\ events = <<>>

Next ==
    \/ \E v \in Texts : onChange(v) /\ UNCHANGED echoVars
    \/ \E e \in KeyEvents : KeyDown(e) /\ UNCHANGED echoVars
    \/ ClickSend /\ UNCHANGED echoVars
    \/ \E c \in Contacts : SelectContact(c) /\ UNCHANGED echoVars
    \/ TimerFires /\ UNCHANGED echoVars
    \/ Elapse /\ UNCHANGED echoVars

Spec == Init /\ [][Next]_vars

NextEcho ==
    \/ send /\ UNCHANGED guiVars
    \/ \E v \in Texts : receive([text |-> v]) /\ UNCHANGED guiVars
    \/ \E v \in Texts : setMsg(v) /\ UNCHANGED guiVars
    \/ unmount /\ UNCHANGED guiVars
    \/ mount /\ UNCHANGED guiVars

SpecEcho == Init /\ [][NextEcho]_vars

\* ------------------------------------------------- vocabulary of the claims
\* all messages of the store, counted
TotalCount(store) ==
    Cardinality(UNION {{<<c, i>> : i \in 1..Len(store[c])} : c \in DOMAIN store})

NoMessage == [id |-> <<"none", 0>>, content |-> <<>>, senderId |-> "",
              timestamp |-> -1, status |-> ""]

\* the latest message of a conversation
Newest(store, c) ==
    IF Conv(store, c) = <<>> THEN NoMessage
    ELSE Conv(store, c)[Len(Conv(store, c))]

\* store b is store a with exactly one message added, at the end of c
GrewAt(a, b, c) ==
    /\ Len(Conv(b, c)) = Len(Conv(a, c)) + 1
    /\ SubSeq(Conv(b, c), 1, Len(Conv(a, c))) = Conv(a, c)
    /\ \A d \in Contacts \ {c} : Conv(b, d) = Conv(a, d)

\* the step just taken ran the timer callback
DeliverStep == last'.op = "deliver"

\* the step just taken was a Send click or a keydown
SubmitAttempt == last'.op \in {"key", "click"}

\* the step just taken scheduled a delayed delivery
Scheduled == Len(timers') = Len(timers) + 1

\* no pending closure is altered by the step
ClosuresKept ==
    /\ Len(timers') >= Len(timers)
    /\ SubSeq(timers', 1, Len(timers)) = timers

\* ---------------------------------------------------------------- claims

\* C1 (as stated): a submit attempted while an earlier accepted submit is
\* still in its delay window is a no-op, whether it comes from the Send
\* button or from Enter: it schedules no second delayed delivery.
C1_InFlightSubmitRejected ==
    [][(timers # <<>> /\ SubmitAttempt) => timers' = timers]_vars

\* C2: every accepted submit ends as exactly one Message in the store: at
\* any moment the store holds the seed messages plus one message per accepted
\* submit that is no longer waiting on its timer; the delivered Message has
\* senderId "me" and status "sent", and right after a delivery the draft is
\* empty and the sending flag is false.
C2_ExactlyOnePerSubmit ==
    /\ TotalCount(messages) =
           TotalCount(initialMessages) + nSubmits - Len(timers)
    /\ last.op = "deliver" =>
           /\ message = <<>>
           /\ ~isSending
           /\ Newest(messages, last.target).senderId = "me"
           /\ Newest(messages, last.target).status = "sent"

C2_Witness ==
    /\ last.op = "deliver"
    /\ timers = <<>>
    /\ nSubmits >= 1
    /\ TotalCount(messages) = TotalCount(initialMessages) + nSubmits

\* C3 (as stated): when the send delay elapses the Message goes to the
\* conversation of the contact selected at that moment.
C3_DeliveredToCurrentSelection ==
    [][DeliverStep => GrewAt(messages, messages', selectedContact)]_vars

\* C3 (amended): the Message goes to the conversation of the contact that was
\* selected when its submit was accepted, whatever is selected when the delay
\* elapses: the closure takes the selection at the submit, nothing alters a
\* pending closure, and the delivery appends to the closure's contact only.
C3_DeliveredToSelectionAtSubmit ==
    [][/\ (SubmitAttempt /\ Scheduled) =>
              timers'[Len(timers')].contact = selectedContact
       /\ ~DeliverStep => ClosuresKept
       /\ DeliverStep => GrewAt(messages, messages', Head(timers).contact)]_vars

C3_Witness ==
    /\ last.op = "deliver"
    /\ last.target # selectedContact
    /\ Newest(messages, last.target).senderId = "me"

\* C4 (as stated): within each conversation the message identifiers are
\* pairwise distinct.
C4_IdsDistinct ==
    \A c \in DOMAIN messages :
        \A i, j \in 1..Len(messages[c]) :
            i # j => messages[c][i].id # messages[c][j].id

\* C5: the store is append-only: a delivery adds one message at the end of
\* one conversation (a missing sequence counts as empty), keeps that
\* conversation's earlier messages as a prefix and every other conversation
\* as it was; no other step changes the store.
C5_AppendOnly ==
    [][/\ DeliverStep => \E c \in Contacts : GrewAt(messages, messages', c)
       /\ ~DeliverStep => messages' = messages]_vars

C5_Witness ==
    /\ last.op = "deliver"
    /\ last.target \notin DOMAIN initialMessages
    /\ Len(Conv(messages, last.target)) >= 2
    /\ \E d \in DOMAIN initialMessages : Conv(messages, d) = initialMessages[d]

\* C6: a submit (Send click, or Enter that is not Shift+Enter) on a draft that
\* is empty or only whitespace changes nothing: no delivery is scheduled, the
\* sending flag and the draft keep their values, the store is unchanged.
C6_BlankSubmitNoOp ==
    [][(SubmitAttempt /\ trim(message) = <<>>) =>
           /\ timers' = timers
           /\ isSending' = isSending
           /\ message' = message
           /\ messages' = messages]_vars

C6_Witness ==
    /\ last.op = "key" /\ last.key = "Enter" /\ ~last.shift /\ ~last.other
    /\ message # <<>> /\ trim(message) = <<>>
    /\ ~last.accepted
    /\ ~isSending /\ timers = <<>>

\* C8 (as stated): Enter with no modifier submits the draft; Enter with any
\* modifier held (Shift, Ctrl, Alt or Meta) never submits and keeps the
\* key's default action.
C8_AnyModifierNeverSubmits ==
    [][(last'.op = "key" /\ last'.key = "Enter") =>
           IF ~last'.shift /\ ~last'.other
           THEN trim(message) # <<>> => Scheduled
           ELSE timers' = timers /\ ~last'.prevented]_vars

\* C8 (amended): Enter without Shift submits the draft (a non-blank draft
\* schedules a delivery) and suppresses the key's default action, whether or
\* not Ctrl, Alt or Meta is held; Enter with Shift never submits and keeps
\* the default newline insertion.
C8_ShiftEnterNeverSubmits ==
    [][(last'.op = "key" /\ last'.key = "Enter") =>
           IF ~last'.shift
           THEN /\ last'.prevented
                /\ IF trim(message) # <<>> THEN Scheduled
                   ELSE timers' = timers
           ELSE timers' = timers /\ ~last'.prevented]_vars

C8_Witness ==
    /\ last.op = "key" /\ last.key = "Enter"
    /\ ~last.shift /\ last.other
    /\ last.accepted /\ last.prevented
    /\ timers # <<>>

\* C9 (as stated): the Message's timestamp is the clock value at the moment
\* its submit was accepted.
C9_TimestampIsSubmitTime ==
    [][DeliverStep =>
           Newest(messages', Head(timers).contact).timestamp
               = Head(timers).at]_vars

\* C9 (amended): the Message's timestamp is the clock value at the moment
\* the delayed delivery runs, not the clock value at which its submit was
\* accepted (which the closure's timer was started at).
C9_TimestampIsDeliveryTime ==
    [][/\ (SubmitAttempt /\ Scheduled) => timers'[Len(timers')].at = now
       /\ ~DeliverStep => ClosuresKept
       /\ DeliverStep =>
              /\ GrewAt(messages, messages', Head(timers).contact)
              /\ Newest(messages', Head(timers).contact).timestamp = now]_vars

C9_Witness ==
    /\ last.op = "deliver"
    /\ Newest(messages, last.target).senderId = "me"
    /\ Newest(messages, last.target).timestamp = now
    /\ Newest(messages, last.target).timestamp > last.at

\* C10: the content of a delivered Message is the draft as it was when its
\* submit was accepted, untrimmed, whatever is typed during the delay; the
\* delivery resets the draft to empty.
C10_ContentIsSubmittedDraft ==
    [][/\ (SubmitAttempt /\ Scheduled) =>
              /\ timers'[Len(timers')].content = message
              /\ message' = message
       /\ ~DeliverStep => ClosuresKept
       /\ DeliverStep =>
              /\ GrewAt(messages, messages', Head(timers).contact)
              /\ Newest(messages', Head(timers).contact).content
                     = Head(timers).content
              /\ message' = <<>>]_vars

C10_Witness ==
    /\ last.op = "deliver"
    /\ last.edited
    /\ Newest(messages, last.target).senderId = "me"
    /\ trim(Newest(messages, last.target).content)
           # Newest(messages, last.target).content

\* what the socket page's transcript must show for the events handled since
\* mount: "You: " + text for a send of non-blank text, "Friend: " + text for
\* an inbound event, nothing for a blank send
RECURSIVE ExpectedTranscript(_)
ExpectedTranscript(evs) ==
    IF evs = <<>> THEN <<>>
    ELSE LET e == evs[Len(evs)]
             before == ExpectedTranscript(SubSeq(evs, 1, Len(evs) - 1))
         IN  IF e.kind = "receive"
             THEN Append(before, <<"F", "r", "i", "e", "n", "d", ":", " ">>
                                     \o e.text)
             ELSE IF trim(e.text) = <<>> THEN before
             ELSE Append(before, <<"Y", "o", "u", ":", " ">> \o e.text)

\* what must have been emitted as "message": the non-blank sent texts
RECURSIVE ExpectedEmitted(_)
ExpectedEmitted(evs) ==
    IF evs = <<>> THEN <<>>
    ELSE LET e == evs[Len(evs)]
             before == ExpectedEmitted(SubSeq(evs, 1, Len(evs) - 1))
         IN  IF e.kind = "send" /\ trim(e.text) # <<>>
             THEN Append(before, e.text)
             ELSE before

\* the step just taken handled a click on Send
SendStep ==
    /\ Len(events') = Len(events) + 1
    /\ events'[Len(events')].kind = "send"

\* C7: while the socket page is mounted its transcript is, in event order,
\* "You: " + text for each send of non-blank text and "Friend: " +
\* payload.text for each inbound event; a send appends its line in the step
\* in which it emits "message" and clears the draft; a blank send emits
\* nothing and appends nothing.
C7_TranscriptInEventOrder ==
    /\ [](mounted =>
            /\ transcript = ExpectedTranscript(events)
            /\ emitted = ExpectedEmitted(events))
    /\ [][SendStep =>
            IF trim(msg) = <<>>
            THEN /\ transcript' = transcript
                 /\ emitted' = emitted
                 /\ msg' = msg
            ELSE /\ Len(transcript') = Len(transcript) + 1
                 /\ Len(emitted') = Len(emitted) + 1
                 /\ msg' = <<>>]_vars

C7_Witness ==
    /\ mounted
    /\ Len(transcript) = 2
    /\ \E i, j, k \in 1..Len(events) :
        /\ i < j
        /\ events[i].kind = "send" /\ trim(events[i].text) # <<>>
        /\ events[i].text # trim(events[i].text)
        /\ events[j].kind = "receive"
        /\ events[k].kind = "send" /\ trim(events[k].text) = <<>>
        /\ events[k].text # <<>>
    /\ transcript[1][1] = "Y" /\ transcript[2][1] = "F"
====
